---- MODULE Spec2Model ----
(***************************************************************************)
(* Model of lsst.db.Db (python/lsst/db/db.py): the wrapper around MySQLdb  *)
(* that owns one connection handle, connects with a retry loop, classifies *)
(* driver errors into DbException codes and executes statements.           *)
(*                                                                         *)
(* One public call runs at a time (the class is single-threaded).  A call  *)
(* starts from pc = "idle" with one of the public-method actions and then  *)
(* advances one driver call per step (ping, open, sleep, select_db,        *)
(* execute, fetch) until it returns or raises, which brings pc back to     *)
(* "idle" with the outcome in result.  The driver is an external           *)
(* collaborator.  Under Spec (driver = "any") each driver call picks its   *)
(* outcome nondeterministically, which covers every failure the wrapper    *)
(* can meet.  Under SchemaSpec (driver = "server") the driver is backed by *)
(* a healthy MySQL server whose databases, tables and selected database    *)
(* are part of the state, so that the statements the wrapper builds have   *)
(* their effect.  Under ConfigSpec (driver = "config") the instance is     *)
(* constructed from each of a set of connection parameters and the model   *)
(* records what it hands to MySQLdb.connect and to the mysql executable.   *)
(***************************************************************************)
EXTENDS Integers, Sequences, FiniteSets, TLC

\* ---------------------------------------------------------------- bounds
\* Largest maxRetryCount given to the constructor.
MaxRetryCount == 2
\* Number of distinct handle identities the driver hands out in turn.
NumHandles == 2

\* ------------------------------------------------- DbException error codes
DB_EXISTS == 1510
DB_DOES_NOT_EXIST == 1515
INVALID_DB_NAME == 1525
SERVER_CONNECT == 1530
SERVER_ERROR == 1540
TB_DOES_NOT_EXIST == 1555
TB_EXISTS == 1560
SERVER_WARNING == 1900
CANT_EXEC_SCRIPT == 1505
INVALID_CONN_INFO == 1520

\* Default of the sleepLen keyword.
DefaultSleepLen == 3

\* The absent handle (self._conn is None) and the absent argument (None).
None == 0
NoName == "None"

VARIABLES
    conn,         \* self._conn: None or the identity of the handle held
    lastHandle,   \* identity of the handle the driver returned last
    sleepLen,     \* self._sleepLen
    attemptMaxNo, \* self._attemptMaxNo
    pc,           \* position of the running public call, "idle" when none runs
    call,         \* the public call that runs (or ran last) and its arguments
    n,            \* attempt counter of _doConnect (0 outside the loop)
    cursors,      \* number of cursors opened and not yet closed
    trace,        \* driver calls made by the current call, with their outcomes
    result,       \* how the last call ended
    driver,       \* "any": unconstrained driver; "server", "config": backed by server
    server,       \* the MySQL server: databases, tables, database selected on the connection
    pre,          \* server and conn as they were when the current call started (SchemaSpec)
    given,        \* the keyword arguments the constructor was called with
    kwargs,       \* self._kwargs
    passed        \* what was handed to MySQLdb.connect and to mysql (under ConfigSpec)

vars == <<conn, lastHandle, sleepLen, attemptMaxNo, pc, call, n, cursors, trace, result,
          driver, server, pre, given, kwargs, passed>>

\* ------------------------------------------------------ driver outcomes
Ok == [t |-> "ok", cls |-> "", code |-> 0]
Err(cls, code) == [t |-> "Error", cls |-> cls, code |-> code]
\* MySQLdb.Warning raised as an exception (warnings.filterwarnings("error")).
Warn == [t |-> "Warning", cls |-> "Warning", code |-> 0]
\* An exception that is neither MySQLdb.Error nor MySQLdb.Warning.
Other == [t |-> "Other", cls |-> "Exception", code |-> 0]

\* The codes of _mysqlErrorMap plus one code absent from it (1045, access
\* denied).  1007 is a ProgrammingError in MySQLdb, the rest OperationalError.
DriverErrors ==
    {Err("OperationalError", c) : c \in {1008, 1050, 1051, 2002, 2003, 2006, 2013, 1045}}
        \cup {Err("ProgrammingError", 1007)}

Outcomes == {Ok, Warn, Other} \cup DriverErrors

\* ------------------------------------------------------ error classifier
\* Faulty variant of getErrCode: 2013 (lost connection during query) is
\* missing from the map.
getErrCode_Without2013(mysqlErrCode) ==
    CASE mysqlErrCode = 1007 -> DB_EXISTS
      [] mysqlErrCode = 1008 -> DB_DOES_NOT_EXIST
      [] mysqlErrCode = 1050 -> TB_EXISTS
      [] mysqlErrCode = 1051 -> TB_DOES_NOT_EXIST
      [] mysqlErrCode \in {2002, 2003, 2006} -> SERVER_CONNECT
      [] OTHER -> SERVER_ERROR

\* _getErrCode: _mysqlErrorMap.get(mysqlErrCode, DbException.SERVER_ERROR).
getErrCode(mysqlErrCode) ==
    CASE mysqlErrCode = 1007 -> DB_EXISTS
      [] mysqlErrCode = 1008 -> DB_DOES_NOT_EXIST
      [] mysqlErrCode = 1050 -> TB_EXISTS
      [] mysqlErrCode = 1051 -> TB_DOES_NOT_EXIST
      [] mysqlErrCode \in {2002, 2003, 2006, 2013} -> SERVER_CONNECT
      [] OTHER -> SERVER_ERROR

isConnectionError(mysqlErrCode) == getErrCode(mysqlErrCode) = SERVER_CONNECT

\* ------------------------------------------------------ results of a call
Running == [kind |-> "running", code |-> 0, val |-> "", absorbed |-> 0]
Return(v) == [kind |-> "return", code |-> 0, val |-> v, absorbed |-> 0]
DbException(errCode) == [kind |-> "DbException", code |-> errCode, val |-> "", absorbed |-> 0]
\* A driver exception that reaches the caller as it is.
Raw(out) == [kind |-> out.t, code |-> out.code, val |-> out.cls, absorbed |-> 0]
\* NameError raised by the reference to the undefined name `error`.
NameError == [kind |-> "NameError", code |-> 0, val |-> "", absorbed |-> 0]

\* Faulty variant of handleException: a warning is classified like an
\* error that is absent from _mysqlErrorMap.
handleException_WarningAsError(e) ==
    IF e.t \in {"Error", "Warning"} THEN DbException(getErrCode(e.code)) ELSE Raw(e)

\* Faulty variant of handleException: an exception that is neither a
\* driver error nor a warning is wrapped like an unmapped driver error.
handleException_WrapsOther(e) ==
    IF e.t = "Warning" THEN DbException(SERVER_WARNING)
    ELSE DbException(getErrCode(e.code))

\* _handleException: what is raised for the exception e caught by a bare except.
handleException(e) ==
    IF e.t = "Error" THEN DbException(getErrCode(e.code))
    ELSE IF e.t = "Warning" THEN DbException(SERVER_WARNING)
    ELSE Raw(e)

\* ------------------------------------------------------ public calls
ConnOps == {"connect", "useDb"}
Exec0Ops == {"execCommand0", "createDb", "dropDb", "createTable", "dropTable"}
Exec1Ops == {"execCommand1", "dbExists", "tableExists", "userExists"}
ExecNOps == {"execCommandN", "isView", "getTableContent"}
ExecOps == Exec0Ops \cup Exec1Ops \cup ExecNOps
BoolOps == {"dbExists", "tableExists", "userExists", "isView"}

DbNames == {NoName, "A", "B"}
TableNames == {"t1"}

\* A call of a method that has a tableName parameter.
CallT(op, tableName, dbName, mayExist, mustExist) ==
    [op |-> op, tableName |-> tableName, dbName |-> dbName,
     mayExist |-> mayExist, mustExist |-> mustExist]
Call(op, dbName, mayExist, mustExist) == CallT(op, NoName, dbName, mayExist, mustExist)
\* A call of a method that has no dbName / mayExist / mustExist parameter.
Plain(op) == Call(op, NoName, FALSE, TRUE)

\* nRowsRet passed to _execCommand by each statement-executing method.
nRowsRet(op) == IF op \in Exec0Ops THEN 0 ELSE IF op \in Exec1Ops THEN 1 ELSE 2

\* Faulty variants of Absorbs: the mayExist toggle is not consulted; the
\* mustExist toggle is not consulted.
Absorbs_IgnoresMayExist(c, errCode) ==
    \/ c.op = "createDb" /\ errCode = DB_EXISTS
    \/ c.op = "dropDb" /\ errCode = DB_DOES_NOT_EXIST /\ ~c.mustExist
    \/ c.op = "createTable" /\ errCode = TB_EXISTS
    \/ c.op = "dropTable" /\ errCode = TB_DOES_NOT_EXIST /\ ~c.mustExist

Absorbs_IgnoresMustExist(c, errCode) ==
    \/ c.op = "createDb" /\ errCode = DB_EXISTS /\ c.mayExist
    \/ c.op = "dropDb" /\ errCode = DB_DOES_NOT_EXIST
    \/ c.op = "createTable" /\ errCode = TB_EXISTS /\ c.mayExist
    \/ c.op = "dropTable" /\ errCode = TB_DOES_NOT_EXIST

\* Faulty variant of Absorbs: a permissive toggle swallows the exists /
\* does-not-exist kind of either object, database or table.
Absorbs_EitherObject(c, errCode) ==
    \/ c.op \in {"createDb", "createTable"} /\ errCode \in {DB_EXISTS, TB_EXISTS} /\ c.mayExist
    \/ /\ c.op \in {"dropDb", "dropTable"}
       /\ errCode \in {DB_DOES_NOT_EXIST, TB_DOES_NOT_EXIST}
       /\ ~c.mustExist

\* The except clauses of createDb, dropDb, createTable and dropTable: the
\* DbException the method swallows, given its toggle.
Absorbs(c, errCode) ==
    \/ c.op = "createDb" /\ errCode = DB_EXISTS /\ c.mayExist
    \/ c.op = "dropDb" /\ errCode = DB_DOES_NOT_EXIST /\ ~c.mustExist
    \/ c.op = "createTable" /\ errCode = TB_EXISTS /\ c.mayExist
    \/ c.op = "dropTable" /\ errCode = TB_DOES_NOT_EXIST /\ ~c.mustExist

\* What the caller of the public method c sees when its body ends with res.
Surface(c, res) ==
    IF res.kind = "DbException" /\ Absorbs(c, res.code)
    THEN [kind |-> "return", code |-> 0, val |-> "None", absorbed |-> res.code]
    ELSE res

\* ------------------------------------------------------ trace events
Ev(ev, out) == [ev |-> ev, out |-> out]

Goto(p, tr, cu, res) ==
    /\ pc' = p
    /\ trace' = tr
    /\ cursors' = cu
    /\ result' = res

\* The public call c returns or raises res.
Finish(c, tr, cu, res) == Goto("idle", tr, cu, Surface(c, res))

\* Faulty variant of closing: the cursor is closed only when the block is
\* left normally, as if close() followed the block instead of guarding it.
closing_OnlyOnReturn(cu, raised) == IF raised THEN cu ELSE cu - 1

\* contextlib.closing: the cursor count after the with block is left,
\* normally (raised = FALSE) or by an exception (raised = TRUE).
closing(cu, raised) == cu - 1

\* The with block of _execCommand is left with res.
ExitWith(c, tr, res) ==
    Finish(c, Append(tr, Ev("cursor_close", Ok)), closing(cursors, res.kind # "return"), res)

\* _execCommand from `with contextlib.closing(self._conn.cursor())` on.
OpenCursor(tr) == Goto("execute", Append(tr, Ev("cursor", Ok)), cursors + 1, Running)

\* The rest of the call once a handle is known to be held: connect() goes
\* on to select_db when a dbName was given, _execCommand opens its cursor.
AfterConnected(c, tr) ==
    IF c.op \in ConnOps
    THEN IF c.dbName # NoName
         THEN Goto("select_db", tr, cursors, Running)
         ELSE Finish(c, tr, cursors, Return("None"))
    ELSE OpenCursor(tr)

\* Faulty variant of EnterConnect: connect() opens a connection without
\* asking isConnected() first.
EnterConnect_AlwaysOpens(c) ==
    /\ Goto("open", <<>>, cursors, Running)
    /\ n' = 1

\* connect(): `if not self.isConnected(): self._doConnect()`.
EnterConnect(c) ==
    IF conn = None
    THEN /\ Goto("open", <<>>, cursors, Running)
         /\ n' = 1
    ELSE /\ Goto("ping", <<>>, cursors, Running)
         /\ n' = n

\* ------------------------------------------------------ connection parameters
\* A keyword the constructor was not given.
Absent == "absent"
Hosts == {Absent, "localhost", "127.0.0.1", "LOCALHOST", "db.example.org"}
\* A port given as a string and as an integer.
Ports == {Absent, "str:3306", "int:3306"}
OptionFiles == {Absent, "my.cnf"}
Sockets == {Absent, "/tmp/mysql.sock"}
\* One more keyword the constructor may be given, by its name: "compress"
\* (a keyword of _connectArgNameMap, given as True) or "socket" (not one).
Extras == {Absent, "compress", "socket"}

Kwargs(host, port, read_default_file, read_default_group) ==
    [host |-> host, port |-> port, read_default_file |-> read_default_file,
     read_default_group |-> read_default_group,
     unix_socket |-> Absent, db |-> Absent, extra |-> Absent]

\* The keyword arguments a constructor call gives (sleepLen and
\* maxRetryCount are popped first and kept in their own attributes).
Given ==
    {[Kwargs(h, p, f, Absent) EXCEPT !.unix_socket = u, !.extra = x] :
        h \in Hosts, p \in Ports, f \in OptionFiles, u \in Sockets, x \in Extras}

\* The keys of _connectArgNameMap.
SupportedKeys ==
    {"host", "user", "passwd", "db", "port", "unix_socket", "connect_timeout",
     "compress", "named_pipe", "read_default_file", "charset", "local_infile"}

\* Faulty variant of InvalidConnInfo: the keywords are not looked at.
InvalidConnInfo_Never(g) == FALSE

\* __init__: `for k in self._kwargs: if k not in self._connectArgNameMap`.
\* The other keywords of the model are keys of the map.
InvalidConnInfo(g) == g.extra # Absent /\ g.extra \notin SupportedKeys

\* int(self._kwargs["port"])
int(port) == IF port = "str:3306" THEN "int:3306" ELSE port

\* Faulty variant of initKwargs: the host is stored as it was given.
initKwargs_KeepsLocalhost(g) ==
    [g EXCEPT !.port = int(@),
              !.read_default_group = IF g.read_default_file # Absent THEN "mysql" ELSE Absent]

\* __init__: self._kwargs once the constructor has returned.
initKwargs(g) ==
    [g EXCEPT !.host = IF @ = "localhost" THEN "127.0.0.1" ELSE @,
              !.port = int(@),
              !.read_default_group = IF g.read_default_file # Absent THEN "mysql" ELSE Absent]

\* _connectArgNameMap, for the keywords of the model; read_default_group
\* has no entry.
connectArgNameMap(k) ==
    CASE k = "host" -> "host"
      [] k = "port" -> "port"
      [] k = "db" -> "database"
      [] k = "unix_socket" -> "socket"
      [] k = "compress" -> "compress"
      [] k = "read_default_file" -> "defaults-file"

\* loadSqlScript: `connectArgs = self._kwargs.copy()` with "db" set to the
\* dbName argument when one is given.
connectArgsFor(kw, dbName) == IF dbName # NoName THEN [kw EXCEPT !.db = dbName] ELSE kw

\* loadSqlScript: the argument list of the mysql executable, as the set
\* of its <<option, value>> pairs.
mysqlArgs(connectArgs) ==
    (IF connectArgs.read_default_file = Absent THEN {<<"no-defaults", "">>} ELSE {})
    \cup {<<connectArgNameMap(k), connectArgs[k]>> :
            k \in {j \in {"host", "port", "db", "unix_socket", "read_default_file"} :
                       connectArgs[j] # Absent}}
    \cup (IF connectArgs.extra \in SupportedKeys
          THEN {<<connectArgNameMap(connectArgs.extra), "True">>} ELSE {})

NothingPassed == [connect |-> {}, mysql |-> {}]

\* ------------------------------------------------------ statements
\* The SQL text each method builds, as the statement it denotes.  db = NoName
\* stands for an unqualified table name (CREATE / DROP TABLE) and for
\* DATABASE() (the information_schema queries).
Stmt(verb, dbName, tableName) == [verb |-> verb, db |-> dbName, tbl |-> tableName]

\* "CREATE DATABASE `%s`" % dbName
createDbStmt(dbName) == Stmt("CREATE DATABASE", dbName, NoName)

\* "DROP DATABASE `%s`" % dbName
dropDbStmt(dbName) == Stmt("DROP DATABASE", dbName, NoName)

\* "SELECT COUNT(*) FROM information_schema.schemata WHERE schema_name = '%s'"
dbExistsStmt(dbName) == Stmt("COUNT SCHEMATA", dbName, NoName)

\* Faulty variant of tableExistsStmt: the dbName argument is not used, the
\* query is always scoped to DATABASE().
tableExistsStmt_IgnoresDbName(tableName, dbName) == Stmt("COUNT TABLES", NoName, tableName)

\* Faulty variant of tableExistsStmt: without a dbName the query is not
\* scoped to a schema at all.
tableExistsStmt_Unscoped(tableName, dbName) ==
    Stmt(IF dbName = NoName THEN "COUNT TABLES ANY SCHEMA" ELSE "COUNT TABLES", dbName, tableName)

\* "SELECT COUNT(*) FROM information_schema.tables WHERE table_schema = %s
\* AND table_name = '%s'", table_schema being '<dbName>' or DATABASE().
tableExistsStmt(tableName, dbName) == Stmt("COUNT TABLES", dbName, tableName)

\* Faulty variant of createTableStmt: the table is created after a
\* "USE <dbName>" instead of under a qualified name.
createTableStmt_UsesDb(tableName, dbName) == Stmt("USE AND CREATE TABLE", dbName, tableName)

\* Faulty variant of createTableStmt: an unqualified table goes to
\* database "B" instead of the selected database.
createTableStmt_DefaultsToB(tableName, dbName) ==
    Stmt("CREATE TABLE", IF dbName = NoName THEN "B" ELSE dbName, tableName)

\* "CREATE TABLE %s`%s` %s" % (dbNameStr, tableName, tableSchema)
createTableStmt(tableName, dbName) == Stmt("CREATE TABLE", dbName, tableName)

\* "DROP TABLE %s`%s`" % (dbNameStr, tableName)
dropTableStmt(tableName, dbName) == Stmt("DROP TABLE", dbName, tableName)

\* "SELECT table_type FROM information_schema.tables WHERE table_schema=%s
\* AND table_name='%s'"
isViewStmt(tableName, dbName) == Stmt("SELECT TABLE_TYPE", dbName, tableName)

\* The command given to execCommand0 where a server answers: an unqualified
\* "CREATE VIEW `t1` AS SELECT ..." (testViews creates its view this way).
CreateViewCmd == Stmt("CREATE VIEW", NoName, "t1")

\* The statement the call c sends through _execCommand.
Statement(c) ==
    CASE c.op = "createDb" -> createDbStmt(c.dbName)
      [] c.op = "dropDb" -> dropDbStmt(c.dbName)
      [] c.op = "dbExists" -> dbExistsStmt(c.dbName)
      [] c.op = "tableExists" -> tableExistsStmt(c.tableName, c.dbName)
      [] c.op = "createTable" -> createTableStmt(c.tableName, c.dbName)
      [] c.op = "dropTable" -> dropTableStmt(c.tableName, c.dbName)
      [] c.op = "isView" -> isViewStmt(c.tableName, c.dbName)
      [] c.op = "execCommand0" -> CreateViewCmd
      [] OTHER -> Stmt("SELECT", NoName, NoName)

\* What each method makes of the rows it fetched: `count[0] == 1` for
\* dbExists and tableExists, `len(rows) == 1 and rows[0][0] == 'VIEW'` for
\* isView.
ReturnValue(c, rows) ==
    IF c.op \in {"dbExists", "tableExists"}
    THEN IF rows[1][1] = 1 THEN "True" ELSE "False"
    ELSE IF c.op = "isView"
    THEN IF Len(rows) = 1 /\ rows[1][1] = "VIEW" THEN "True" ELSE "False"
    ELSE "rows"

\* ------------------------------------------------------ the MySQL server
\* The part of MySQL the statements above address.  tables holds one
\* record per table or view; sel is the database selected on the
\* connection of the handle held (NoName: none, DATABASE() is NULL).
\* The server holds databases and tables; sel is the database selected on
\* the connection, lost the database whose selection ended with the
\* connection that had made it (none once a database is selected again).
EmptyServer == [dbs |-> {}, tables |-> {}, sel |-> NoName, lost |-> NoName]

Reply(out, srv, rows) == [out |-> out, srv |-> srv, rows |-> rows]

\* The server's answer to statement st in state s.
ServerExecute(s, st) ==
    LET tgt == IF st.db # NoName THEN st.db ELSE s.sel
        match == {x \in s.tables : x.db = tgt /\ x.name = st.tbl}
        any == {x \in s.tables : x.name = st.tbl}
        create(type) ==
            IF tgt = NoName THEN Reply(Err("OperationalError", 1046), s, <<>>)
            ELSE IF tgt \notin s.dbs THEN Reply(Err("OperationalError", 1049), s, <<>>)
            ELSE IF match # {} THEN Reply(Err("OperationalError", 1050), s, <<>>)
            ELSE Reply(Ok, [s EXCEPT !.tables = @ \cup {[db |-> tgt, name |-> st.tbl, type |-> type]}], <<>>)
    IN  CASE st.verb = "CREATE DATABASE" ->
               IF st.db \in s.dbs
               THEN Reply(Err("ProgrammingError", 1007), s, <<>>)
               ELSE Reply(Ok, [s EXCEPT !.dbs = @ \cup {st.db}], <<>>)
          [] st.verb = "DROP DATABASE" ->
               IF st.db \notin s.dbs
               THEN Reply(Err("OperationalError", 1008), s, <<>>)
               ELSE Reply(Ok, [dbs |-> s.dbs \ {st.db},
                               tables |-> {x \in s.tables : x.db # st.db},
                               sel |-> IF s.sel = st.db THEN NoName ELSE s.sel,
                               lost |-> s.lost], <<>>)
          [] st.verb = "CREATE TABLE" -> create("BASE TABLE")
          [] st.verb = "CREATE VIEW" -> create("VIEW")
          [] st.verb = "USE AND CREATE TABLE" ->
               IF create("BASE TABLE").out = Ok /\ st.db # NoName
               THEN Reply(Ok, [create("BASE TABLE").srv EXCEPT !.sel = st.db], <<>>)
               ELSE create("BASE TABLE")
          [] st.verb = "DROP TABLE" ->
               IF tgt = NoName THEN Reply(Err("OperationalError", 1046), s, <<>>)
               ELSE IF \A x \in match : x.type # "BASE TABLE"
               THEN Reply(Err("OperationalError", 1051), s, <<>>)
               ELSE Reply(Ok, [s EXCEPT !.tables = @ \ match], <<>>)
          [] st.verb = "COUNT SCHEMATA" ->
               Reply(Ok, s, << <<Cardinality({st.db} \cap s.dbs)>> >>)
          [] st.verb = "COUNT TABLES" -> Reply(Ok, s, << <<Cardinality(match)>> >>)
          [] st.verb = "COUNT TABLES ANY SCHEMA" -> Reply(Ok, s, << <<Cardinality(any)>> >>)
          [] st.verb = "SELECT TABLE_TYPE" ->
               Reply(Ok, s, IF match = {} THEN <<>> ELSE << <<(CHOOSE x \in match : TRUE).type>> >>)
          [] OTHER -> Reply(Ok, s, <<>>)

\* select_db(dbName) on the connection.
ServerSelectDb(s, dbName) ==
    IF dbName \in s.dbs
    THEN Reply(Ok, [s EXCEPT !.sel = dbName, !.lost = NoName], <<>>)
    ELSE Reply(Err("OperationalError", 1049), s, <<>>)

\* Faulty variant of ServerNewSession: the selection outlives the
\* connection, as if every open selected the last database again.
ServerNewSession_KeepsSelection(s) == s

\* A new connection has no database selected (self._kwargs holds no db
\* here); a closed one has none either.
ServerNewSession(s) ==
    [s EXCEPT !.sel = NoName, !.lost = IF s.sel # NoName THEN s.sel ELSE @]

\* ------------------------------------------------------ the driver
\* The outcomes a driver call can have, and the server it leaves behind.
AnyDriver == driver = "any"
Recording == driver = "config"
PingOutcomes == IF AnyDriver THEN Outcomes ELSE {Ok}
OpenOutcomes ==
    IF AnyDriver THEN Outcomes
    ELSE IF Recording THEN {Ok, Err("OperationalError", 2003)}
    ELSE {Ok}
CloseOutcomes == IF AnyDriver THEN {Ok, Err("OperationalError", 2006), Other} ELSE {Ok}
SelectDbOutcomes == IF AnyDriver THEN Outcomes ELSE {ServerSelectDb(server, call.dbName).out}
ExecuteOutcomes == IF AnyDriver THEN Outcomes ELSE {ServerExecute(server, Statement(call)).out}
FetchOutcomes == IF AnyDriver THEN {Ok, Other} ELSE {Ok}
\* What the method returns after a fetch.
FetchValues ==
    IF AnyDriver
    THEN IF call.op \in BoolOps THEN {"True", "False"} ELSE {"rows"}
    ELSE {ReturnValue(call, ServerExecute(server, Statement(call)).rows)}

\* The dbName arguments the calls are made with: where no server tells
\* one database name from another, one name is enough.
DbArgs == IF driver = "server" THEN DbNames ELSE {NoName, "A"}

\* The server after a driver call that leaves it as srv under SchemaSpec.
ServerBecomes(srv) == server' = IF AnyDriver THEN server ELSE srv

\* A public call starts: pre remembers the server and the handle.
Begin ==
    /\ pc = "idle"
    /\ pre' = IF driver = "server" THEN [server |-> server, conn |-> conn] ELSE pre
    /\ UNCHANGED <<sleepLen, attemptMaxNo, driver, lastHandle, given, kwargs, passed>>

\* A step of the running call leaves these alone.
StepFrame == UNCHANGED <<sleepLen, attemptMaxNo, driver, pre, call, given, kwargs>>

\* The object after the constructor returned, given the keywords g.
Constructed(g) ==
    /\ conn = None
    /\ lastHandle = 0
    /\ pc = "idle"
    /\ call = Plain("__init__")
    /\ n = 0
    /\ cursors = 0
    /\ trace = <<>>
    /\ result = Return("None")
    /\ server = EmptyServer
    /\ pre = [server |-> EmptyServer, conn |-> None]
    /\ given = g
    /\ kwargs = initKwargs(g)
    /\ passed = NothingPassed

\* The constructor raised for the keywords g: no object is returned, so
\* no method can be called.
ConstructionFailed(g) ==
    /\ conn = None
    /\ lastHandle = 0
    /\ pc = "unconstructed"
    /\ call = Plain("__init__")
    /\ n = 0
    /\ cursors = 0
    /\ trace = <<>>
    /\ result = DbException(INVALID_CONN_INFO)
    /\ server = EmptyServer
    /\ pre = [server |-> EmptyServer, conn |-> None]
    /\ given = g
    /\ kwargs = g
    /\ passed = NothingPassed

\* ------------------------------------------------------ initial state
Init ==
    /\ Constructed(Kwargs("localhost", Absent, Absent, Absent))
    /\ sleepLen \in {0, DefaultSleepLen}
    /\ attemptMaxNo \in {1 + r : r \in (0 - 1)..MaxRetryCount}
    /\ driver = "any"

\* The instance of SchemaSpec: constructed with the default sleepLen and
\* maxRetryCount, against a server that holds no database yet.
SchemaInit ==
    /\ Constructed(Kwargs("localhost", Absent, Absent, Absent))
    /\ sleepLen = DefaultSleepLen
    /\ attemptMaxNo = 1
    /\ driver = "server"

\* The instances of ConfigSpec: one per combination of keywords, each
\* constructed with maxRetryCount = 1.
ConfigInit ==
    /\ \E g \in Given : IF InvalidConnInfo(g) THEN ConstructionFailed(g) ELSE Constructed(g)
    /\ sleepLen \in {0, DefaultSleepLen}
    /\ attemptMaxNo = 2
    /\ driver = "config"

\* ------------------------------------------------------ public methods
isConnected ==
    /\ Begin
    /\ call' = Plain("isConnected")
    /\ IF conn = None
       THEN Finish(call', <<>>, cursors, Return("False"))
       ELSE Goto("ping", <<>>, cursors, Running)
    /\ UNCHANGED <<conn, n, server>>

connect ==
    /\ Begin
    /\ \E dbName \in DbArgs : call' = Call("connect", dbName, FALSE, TRUE)
    /\ EnterConnect(call')
    /\ UNCHANGED <<conn, server>>

\* Faulty variant of useDb: connect(dbName) is called whatever dbName is.
useDb_AlwaysConnects ==
    /\ Begin
    /\ \E dbName \in DbArgs : call' = Call("useDb", dbName, FALSE, TRUE)
    /\ EnterConnect(call')
    /\ UNCHANGED <<conn, server>>

\* useDb: `if dbName is not None: self.connect(dbName)`.
useDb ==
    /\ Begin
    /\ \E dbName \in DbArgs : call' = Call("useDb", dbName, FALSE, TRUE)
    /\ IF call'.dbName # NoName
       THEN EnterConnect(call')
       ELSE /\ Finish(call', <<>>, cursors, Return("None"))
            /\ n' = n
    /\ UNCHANGED <<conn, server>>

\* Faulty variant of disconnect: an error of close() reaches the caller.
disconnect_PropagatesCloseError ==
    /\ Begin
    /\ call' = Plain("disconnect")
    /\ IF conn = None
       THEN Finish(call', <<>>, cursors, Return("None"))
       ELSE \E out \in CloseOutcomes :
                Finish(call', <<Ev("close", out)>>, cursors,
                       IF out = Ok THEN Return("None") ELSE handleException(out))
    /\ conn' = None
    /\ ServerBecomes(ServerNewSession(server))
    /\ UNCHANGED n

disconnect ==
    /\ Begin
    /\ call' = Plain("disconnect")
    /\ IF conn = None
       THEN Finish(call', <<>>, cursors, Return("None"))
       ELSE \E out \in CloseOutcomes :
                Finish(call', <<Ev("close", out)>>, cursors, Return("None"))
    /\ conn' = None
    /\ ServerBecomes(ServerNewSession(server))
    /\ UNCHANGED n

\* Faulty variant of execCommand: the cursor is opened without making sure
\* that a handle is held.
execCommand_NoConnect(c) ==
    /\ Begin
    /\ call' = c
    /\ OpenCursor(<<>>)
    /\ UNCHANGED <<conn, n, server>>

\* _execCommand up to the cursor: `if self._conn is None: self.connect()`.
execCommand(c) ==
    /\ Begin
    /\ call' = c
    /\ IF conn = None
       THEN EnterConnect(c)
       ELSE /\ OpenCursor(<<>>)
            /\ n' = n
    /\ UNCHANGED <<conn, server>>

\* A method that returns or raises before it touches the handle.
Immediate(c, res) ==
    /\ Begin
    /\ call' = c
    /\ Finish(c, <<>>, cursors, res)
    /\ UNCHANGED <<conn, n, server>>

execCommand0 == execCommand(Plain("execCommand0"))

execCommand1 == execCommand(Plain("execCommand1"))

execCommandN == execCommand(Plain("execCommandN"))

createDb ==
    \E dbName \in DbArgs, mayExist \in BOOLEAN :
        IF dbName = NoName
        THEN Immediate(Call("createDb", dbName, mayExist, TRUE), DbException(INVALID_DB_NAME))
        ELSE execCommand(Call("createDb", dbName, mayExist, TRUE))

dropDb ==
    \E dbName \in DbArgs \ {NoName}, mustExist \in BOOLEAN :
        execCommand(Call("dropDb", dbName, FALSE, mustExist))

dbExists ==
    \E dbName \in DbArgs :
        IF dbName = NoName
        THEN Immediate(Call("dbExists", dbName, FALSE, TRUE), Return("False"))
        ELSE execCommand(Call("dbExists", dbName, FALSE, TRUE))

tableExists ==
    \E tableName \in TableNames, dbName \in DbArgs :
        execCommand(CallT("tableExists", tableName, dbName, FALSE, TRUE))

createTable ==
    \E tableName \in TableNames, dbName \in DbArgs, mayExist \in BOOLEAN :
        execCommand(CallT("createTable", tableName, dbName, mayExist, TRUE))

dropTable ==
    \E tableName \in TableNames, dbName \in DbArgs, mustExist \in BOOLEAN :
        execCommand(CallT("dropTable", tableName, dbName, FALSE, mustExist))

isView ==
    \E tableName \in TableNames, dbName \in DbArgs :
        execCommand(CallT("isView", tableName, dbName, FALSE, TRUE))

getTableContent ==
    \E tableName \in TableNames, dbName \in DbArgs :
        execCommand(CallT("getTableContent", tableName, dbName, FALSE, TRUE))

userExists == execCommand(Plain("userExists"))

\* Faulty variant of loadSqlScript: the dbName argument is written into
\* self._kwargs itself instead of into a copy.
loadSqlScript_NoCopy ==
    /\ pc = "idle"
    /\ \E dbName \in DbArgs : call' = Call("loadSqlScript", dbName, FALSE, TRUE)
    /\ kwargs' = connectArgsFor(kwargs, call'.dbName)
    /\ \E exit \in {"IOError", "0", "1"} :
         /\ passed' = IF exit = "IOError" \/ ~Recording THEN passed
                       ELSE [passed EXCEPT !.mysql = @ \cup {mysqlArgs(kwargs')}]
         /\ Finish(call', <<>>, cursors,
                   CASE exit = "0" -> Return("None")
                     [] exit = "1" -> DbException(CANT_EXEC_SCRIPT)
                     [] OTHER -> Raw(Other))
    /\ UNCHANGED <<conn, lastHandle, n, server, pre, sleepLen, attemptMaxNo, driver, given>>

\* loadSqlScript: runs the mysql executable on the script; the script file
\* may fail to open (IOError), mysql may exit with a non-zero status.
loadSqlScript ==
    /\ pc = "idle"
    /\ \E dbName \in DbArgs : call' = Call("loadSqlScript", dbName, FALSE, TRUE)
    /\ \E exit \in {"IOError", "0", "1"} :
         /\ passed' = IF exit = "IOError" \/ ~Recording THEN passed
                       ELSE [passed EXCEPT !.mysql =
                                 @ \cup {mysqlArgs(connectArgsFor(kwargs, call'.dbName))}]
         /\ Finish(call', <<>>, cursors,
                   CASE exit = "0" -> Return("None")
                     [] exit = "1" -> DbException(CANT_EXEC_SCRIPT)
                     [] OTHER -> Raw(Other))
    /\ UNCHANGED <<conn, lastHandle, n, server, pre, sleepLen, attemptMaxNo, driver,
                   given, kwargs>>

\* ------------------------------------------------------ steps of a call
\* isConnected from self._conn.ping() on: what a failed ping does to the
\* handle and raises.  Only MySQLdb.OperationalError is caught; for a
\* connection error the handler's first statement formats its log message
\* from the undefined name `error`, so NameError leaves the method before
\* `self._conn = None` runs; any other OperationalError is re-raised as is.
PingFailure(out) ==
    IF out.cls = "OperationalError" /\ isConnectionError(out.code)
    THEN [conn |-> conn, res |-> NameError]
    ELSE [conn |-> conn, res |-> Raw(out)]

Ping ==
    /\ pc = "ping"
    /\ \E out \in PingOutcomes :
         LET tr == Append(trace, Ev("ping", out)) IN
         IF out = Ok
         THEN /\ conn' = conn
              /\ IF call.op = "isConnected"
                 THEN Finish(call, tr, cursors, Return("True"))
                 ELSE AfterConnected(call, tr)
         ELSE /\ conn' = PingFailure(out).conn
              /\ Finish(call, tr, cursors, PingFailure(out).res)
    /\ UNCHANGED <<lastHandle, n, server, passed>>
    /\ StepFrame

\* Faulty variants of GiveUp: an off-by-one comparison, a test that forgets
\* the kind of the error, and a test that forgets the attempt limit.
GiveUp_OffByOne(k, mysqlErrCode) == k > attemptMaxNo \/ ~isConnectionError(mysqlErrCode)

GiveUp_IgnoresKind(k, mysqlErrCode) == k >= attemptMaxNo

GiveUp_NoAttemptLimit(k, mysqlErrCode) == ~isConnectionError(mysqlErrCode)

\* _doConnect: `n >= self._attemptMaxNo or not self._isConnectionError(...)`.
GiveUp(k, mysqlErrCode) == k >= attemptMaxNo \/ ~isConnectionError(mysqlErrCode)

\* Faulty variant of SleepNeeded: sleeps for a sleepLen of zero too.
SleepNeeded_AlsoForZero == sleepLen >= 0

\* _doConnect: `if self._sleepLen > 0: sleep(self._sleepLen)`.
SleepNeeded == sleepLen > 0

\* One pass of the while loop of _doConnect: one MySQLdb.connect(**kwargs).
Open ==
    /\ pc = "open"
    /\ \E out \in OpenOutcomes :
         LET tr == Append(trace, Ev("open", out)) IN
         IF out = Ok
         THEN /\ conn' = (lastHandle % NumHandles) + 1
              /\ lastHandle' = conn'
              /\ n' = 0
              /\ ServerBecomes(ServerNewSession(server))
              /\ AfterConnected(call, tr)
         ELSE IF out.t = "Error" /\ ~GiveUp(n, out.code)
         THEN /\ n' = n + 1
              /\ Goto(IF SleepNeeded THEN "sleep" ELSE "open", tr, cursors, Running)
              /\ UNCHANGED <<conn, lastHandle, server>>
         ELSE /\ n' = 0
              /\ Finish(call, tr, cursors, handleException(out))
              /\ UNCHANGED <<conn, lastHandle, server>>
    /\ passed' = IF Recording THEN [passed EXCEPT !.connect = @ \cup {kwargs}] ELSE passed
    /\ StepFrame

Sleep ==
    /\ pc = "sleep"
    /\ Goto("open", Append(trace, Ev("sleep", Ok)), cursors, Running)
    /\ UNCHANGED <<conn, lastHandle, n, server, passed>>
    /\ StepFrame

\* Faulty variant of SelectDb: a failed select_db drops the handle.
SelectDb_TearsDown ==
    /\ pc = "select_db"
    /\ \E out \in SelectDbOutcomes :
         LET tr == Append(trace, Ev("select_db", out)) IN
         IF out = Ok
         THEN /\ Finish(call, tr, cursors, Return("None"))
              /\ ServerBecomes(ServerSelectDb(server, call.dbName).srv)
              /\ conn' = conn
         ELSE /\ Finish(call, tr, cursors, handleException(out))
              /\ ServerBecomes(ServerNewSession(server))
              /\ conn' = None
    /\ UNCHANGED <<lastHandle, n, passed>>
    /\ StepFrame

\* connect(): self._conn.select_db(dbName) under a bare except.
SelectDb ==
    /\ pc = "select_db"
    /\ \E out \in SelectDbOutcomes :
         LET tr == Append(trace, Ev("select_db", out)) IN
         IF out = Ok
         THEN Finish(call, tr, cursors, Return("None"))
         ELSE Finish(call, tr, cursors, handleException(out))
    /\ ServerBecomes(ServerSelectDb(server, call.dbName).srv)
    /\ UNCHANGED <<conn, lastHandle, n, passed>>
    /\ StepFrame

\* Faulty variant of Execute: a connectivity-class failure of the statement
\* drops the handle and reconnects to run the statement again.
Execute_Reconnects ==
    /\ pc = "execute"
    /\ \E out \in ExecuteOutcomes :
         LET tr == Append(trace, Ev("execute", out)) IN
         IF out = Ok
         THEN /\ IF nRowsRet(call.op) = 0
                 THEN ExitWith(call, tr, Return("None"))
                 ELSE Goto("fetch", tr, cursors, Running)
              /\ UNCHANGED <<conn, n>>
         ELSE IF out.t = "Error" /\ isConnectionError(out.code)
         THEN /\ Goto("open", Append(tr, Ev("cursor_close", Ok)), cursors - 1, Running)
              /\ conn' = None
              /\ n' = 1
         ELSE /\ ExitWith(call, tr, handleException(out))
              /\ UNCHANGED <<conn, n>>
    /\ ServerBecomes(ServerExecute(server, Statement(call)).srv)
    /\ UNCHANGED <<lastHandle, passed>>
    /\ StepFrame

\* Faulty variant of Execute: a connectivity-class failure of the statement
\* invalidates the handle.
Execute_DropsHandle ==
    /\ pc = "execute"
    /\ \E out \in ExecuteOutcomes :
         LET tr == Append(trace, Ev("execute", out)) IN
         IF out = Ok
         THEN /\ IF nRowsRet(call.op) = 0
                 THEN ExitWith(call, tr, Return("None"))
                 ELSE Goto("fetch", tr, cursors, Running)
              /\ conn' = conn
         ELSE /\ ExitWith(call, tr, handleException(out))
              /\ conn' = IF out.t = "Error" /\ isConnectionError(out.code) THEN None ELSE conn
    /\ ServerBecomes(ServerExecute(server, Statement(call)).srv)
    /\ UNCHANGED <<lastHandle, n, passed>>
    /\ StepFrame

\* _execCommand: cursor.execute(command) under a bare except.
Execute ==
    /\ pc = "execute"
    /\ \E out \in ExecuteOutcomes :
         LET tr == Append(trace, Ev("execute", out)) IN
         IF out = Ok
         THEN IF nRowsRet(call.op) = 0
              THEN ExitWith(call, tr, Return("None"))
              ELSE Goto("fetch", tr, cursors, Running)
         ELSE ExitWith(call, tr, handleException(out))
    /\ ServerBecomes(ServerExecute(server, Statement(call)).srv)
    /\ UNCHANGED <<conn, lastHandle, n, passed>>
    /\ StepFrame

\* _execCommand: cursor.fetchone() / cursor.fetchall(), outside the try.
Fetch ==
    /\ pc = "fetch"
    /\ \E out \in FetchOutcomes :
         LET tr == Append(trace, Ev("fetch", out)) IN
         IF out = Ok
         THEN \E v \in FetchValues : ExitWith(call, tr, Return(v))
         ELSE ExitWith(call, tr, Raw(out))
    /\ UNCHANGED <<conn, lastHandle, n, server, passed>>
    /\ StepFrame

Step == Ping \/ Open \/ Sleep \/ SelectDb \/ Execute \/ Fetch

Next ==
    \/ isConnected \/ connect \/ useDb \/ disconnect
    \/ execCommand0 \/ execCommand1 \/ execCommandN
    \/ createDb \/ dropDb \/ dbExists
    \/ tableExists \/ createTable \/ dropTable
    \/ isView \/ getTableContent \/ userExists
    \/ Step

Spec == Init /\ [][Next]_vars

\* The methods whose statements the server model answers, and the steps a
\* healthy server lets them take (no open attempt fails, so no sleep).
SchemaNext ==
    \/ isConnected \/ connect \/ useDb \/ disconnect
    \/ execCommand0
    \/ createDb \/ dropDb \/ dbExists
    \/ tableExists \/ createTable \/ dropTable \/ isView
    \/ Ping \/ Open \/ SelectDb \/ Execute \/ Fetch

SchemaSpec == SchemaInit /\ [][SchemaNext]_vars

\* The methods that hand the connection parameters to the driver or to
\* the mysql executable, and one method of each other kind.
ConfigNext ==
    \/ isConnected \/ connect \/ disconnect \/ loadSqlScript
    \/ execCommand0
    \/ Ping \/ Open \/ Sleep \/ SelectDb \/ Execute

ConfigSpec == ConfigInit /\ [][ConfigNext]_vars

\* ------------------------------------------------------ reading the trace
\* The driver codes the claims call connectivity-class.
ConnectivityCodes == {2002, 2003, 2006, 2013}

\* The DbException code the claims give for a driver code.
ClaimedKind(code) ==
    CASE code = 1007 -> 1510
      [] code = 1008 -> 1515
      [] code = 1050 -> 1560
      [] code = 1051 -> 1555
      [] code \in ConnectivityCodes -> 1530
      [] OTHER -> 1540

Idx(ev) == {i \in DOMAIN trace : trace[i].ev = ev}
Opens == Idx("open")
IsError(out) == out.t = "Error"
IsConnFail(out) == out.t = "Error" /\ out.code \in ConnectivityCodes
\* The call ended with the DbException of code k raised by its body: it
\* reached the caller, or the method's own except clause swallowed it.
RaisedDbException(k) ==
    \/ result = DbException(k)
    \/ result.kind = "return" /\ result.absorbed = k
\* max(1, maxAttempts)
MaxOpens == IF attemptMaxNo > 1 THEN attemptMaxNo ELSE 1

\* ------------------------------------------------------ C1
\* C1: with maxAttempts N >= 1, a connect() that starts with no handle and
\* whose every open attempt fails with a connectivity-class code makes
\* exactly N open attempts, raises DbException(SERVER_CONNECT) and leaves
\* the handle absent.
C1_ConnectExhaustsAttempts ==
    ( /\ pc = "idle"
      /\ call.op = "connect"
      /\ attemptMaxNo >= 1
      /\ trace # <<>>
      /\ trace[1].ev = "open"
      /\ \A i \in Opens : IsConnFail(trace[i].out) )
    => /\ Cardinality(Opens) = attemptMaxNo
       /\ result = DbException(1530)
       /\ conn = None

C1_Witness ==
    /\ pc = "idle"
    /\ call.op = "connect"
    /\ attemptMaxNo = 3
    /\ Cardinality(Opens) = 3
    /\ \A i \in Opens : IsConnFail(trace[i].out)
    /\ result = DbException(1530)
    /\ conn = None

\* ------------------------------------------------------ C2
\* C2: in the retry loop a sleep happens exactly once between two
\* consecutive open attempts and never after the last one (k attempts give
\* k-1 sleeps when sleepLen > 0); with sleepLen = 0 no sleep happens.
C2_SleepBetweenAttempts ==
    /\ sleepLen <= 0 => Idx("sleep") = {}
    /\ \A i \in Idx("sleep") :
         /\ i > 1
         /\ trace[i - 1].ev = "open"
         /\ IF i < Len(trace) THEN trace[i + 1].ev = "open" ELSE pc = "open"
    /\ \A i \in Opens :
         (\E j \in Opens : j < i) =>
             IF sleepLen > 0
             THEN trace[i - 1].ev = "sleep" /\ trace[i - 2].ev = "open"
             ELSE trace[i - 1].ev = "open"
    /\ (pc = "idle" /\ sleepLen > 0 /\ Opens # {}) =>
           Cardinality(Idx("sleep")) = Cardinality(Opens) - 1

C2_Witness ==
    /\ pc = "idle"
    /\ sleepLen > 0
    /\ Cardinality(Opens) = 3
    /\ Cardinality(Idx("sleep")) = 2
    /\ trace[Len(trace)].ev = "open"

\* ------------------------------------------------------ C3
\* C3: an open attempt that fails with a driver error whose kind is not
\* SERVER_CONNECT is the last thing connect() does, on whichever attempt it
\* occurs: no open attempt and no sleep follow and the DbException raised
\* carries the classified kind.
C3_NonConnectErrorEndsConnect ==
    \A i \in Opens :
        (IsError(trace[i].out) /\ trace[i].out.code \notin ConnectivityCodes) =>
            /\ i = Len(trace)
            /\ pc = "idle"
            /\ RaisedDbException(ClaimedKind(trace[i].out.code))
            /\ call.op \in ConnOps => result = DbException(ClaimedKind(trace[i].out.code))
            /\ conn = None

C3_Witness ==
    /\ pc = "idle"
    /\ call.op = "connect"
    /\ attemptMaxNo = 3
    /\ Cardinality(Opens) = 2
    /\ trace[Len(trace)] = Ev("open", Err("OperationalError", 1045))
    /\ result = DbException(1540)

\* ------------------------------------------------------ C4
\* C4 as stated: every connect() makes between 1 and maxAttempts open
\* attempts and ends either with a handle stored, or with an exception and
\* no handle stored.
C4_Original ==
    (pc = "idle" /\ call.op = "connect" /\ attemptMaxNo >= 1) =>
        /\ Cardinality(Opens) >= 1
        /\ Cardinality(Opens) <= attemptMaxNo
        /\ result.kind = "return" => conn # None
        /\ result.kind # "return" => conn = None

\* C4 (amended): the retry loop that connect() runs when no handle is held
\* always terminates.  It runs only while no handle is held, makes at most
\* max(1, maxAttempts) open attempts and at least one (a connect() that
\* found no handle to ping has made an attempt when it ends), none after a
\* success, every step of a running call can be taken, and the loop ends
\* either with the handle of the successful attempt stored or with an
\* exception and no handle stored.
C4_RetryLoopTerminates ==
    /\ Cardinality(Opens) <= MaxOpens
    /\ Len(trace) <= 2 * MaxOpens + 4
    /\ pc # "idle" => ENABLED Step
    /\ pc \in {"open", "sleep"} => conn = None /\ n >= 1 /\ n <= MaxOpens
    /\ (pc = "idle" /\ call.op = "connect" /\ Idx("ping") = {}) => Opens # {}
    /\ \A i \in Opens :
         trace[i].out = Ok =>
             /\ \A j \in Opens : j <= i
             /\ conn # None
             /\ conn = lastHandle
    /\ (Opens # {} /\ pc \notin {"open", "sleep"} /\ \A i \in Opens : trace[i].out # Ok) =>
           /\ pc = "idle"
           /\ trace[Len(trace)].ev = "open"
           /\ conn = None
           /\ result.kind # "return" \/ result.absorbed # 0

C4_Witness ==
    /\ pc = "idle"
    /\ call.op = "connect"
    /\ attemptMaxNo = 3
    /\ Cardinality(Opens) = 3
    /\ trace[Len(trace)] = Ev("open", Ok)
    /\ conn # None
    /\ result = Return("None")

\* ------------------------------------------------------ C5
\* C5: isConnected() returns false when no handle is held; with a handle
\* it pings and returns true when the ping succeeds; when the ping fails
\* with a connectivity-class error it drops the handle and returns false
\* without raising.
C5_IsConnectedContract ==
    (pc = "idle" /\ call.op = "isConnected") =>
        /\ trace = <<>> => result = Return("False") /\ conn = None
        /\ trace # <<>> =>
             /\ trace[1].ev = "ping"
             /\ trace[1].out = Ok => result = Return("True") /\ conn # None
             /\ (IsConnFail(trace[1].out) /\ trace[1].out.cls = "OperationalError") =>
                    result = Return("False") /\ conn = None

\* ------------------------------------------------------ C6
\* C6: a driver error raised by open, ping, select-database or statement
\* execution reaches the caller only as a DbException of the classified
\* kind; in particular a ping that fails with a non-connectivity error
\* makes isConnected raise such a DbException.
C6_NoDriverErrorLeaks ==
    pc = "idle" =>
        \A i \in DOMAIN trace :
            ( /\ trace[i].ev \in {"open", "ping", "select_db", "execute"}
              /\ IsError(trace[i].out)
              /\ \A j \in DOMAIN trace : j > i => trace[j].ev = "cursor_close"
              /\ trace[i].ev = "ping" => trace[i].out.code \notin ConnectivityCodes )
            => RaisedDbException(ClaimedKind(trace[i].out.code))

\* ------------------------------------------------------ C7
\* C7: when the held handle has lost its connection (its ping fails with a
\* connectivity-class code) and the server accepts connections again
\* (every open attempt succeeds), connect() ends with a live handle and
\* succeeds, without a disconnect() first.
C7_RecoversFromLostConnection ==
    ( /\ pc = "idle"
      /\ call.op \in ConnOps
      /\ trace # <<>>
      /\ trace[1].ev = "ping"
      /\ IsConnFail(trace[1].out)
      /\ trace[1].out.cls = "OperationalError"
      /\ \A i \in DOMAIN trace : i > 1 => trace[i].out = Ok )
    => /\ result.kind = "return"
       /\ Opens # {}
       /\ conn # None

C9_NoRetryInsideExecute ==
    /\ Cardinality(Idx("execute")) <= 1
    /\ \A i \in Idx("execute") :
         /\ \A j \in DOMAIN trace : j > i => trace[j].ev \in {"fetch", "cursor_close"}
         /\ IsConnFail(trace[i].out) =>
              /\ pc = "idle"
              /\ Len(trace) = i + 1
              /\ result = DbException(1530)

C9_Witness ==
    /\ pc = "idle"
    /\ call.op = "execCommand1"
    /\ conn # None
    /\ \E i \in Idx("execute") : trace[i].out = Err("OperationalError", 2013)
    /\ result = DbException(1530)

\* ------------------------------------------------------ C10
\* C10: every cursor an execCommand operation opens is closed by the time
\* the operation returns or raises, on every exit path; between calls no
\* cursor is open.
C10_CursorsClosed ==
    /\ cursors = Cardinality(Idx("cursor")) - Cardinality(Idx("cursor_close"))
    /\ cursors \in {0, 1}
    /\ cursors = 1 <=> pc \in {"execute", "fetch"}
    /\ pc = "idle" => cursors = 0

C10_Witness ==
    /\ pc = "idle"
    /\ cursors = 0
    /\ Idx("cursor") # {}
    /\ \E i \in Idx("fetch") : trace[i].out = Other
    /\ result.kind = "Other"

\* ------------------------------------------------------ C11
\* C11: a statement whose execution produces a driver warning never counts
\* as a success: nothing is fetched, the call ends there and raises
\* DbException(SERVER_WARNING), which no method swallows; a statement that
\* fails with a driver error never ends with that kind.
C11_WarningIsNotSuccess ==
    \A i \in Idx("execute") :
        /\ trace[i].out = Warn =>
             /\ pc = "idle"
             /\ Len(trace) = i + 1
             /\ trace[i + 1].ev = "cursor_close"
             /\ result = DbException(1900)
        /\ (IsError(trace[i].out) /\ pc = "idle") =>
             /\ RaisedDbException(ClaimedKind(trace[i].out.code))
             /\ ~RaisedDbException(1900)

C11_Witness ==
    /\ pc = "idle"
    /\ call.op = "execCommand0"
    /\ \E i \in Idx("execute") : trace[i].out = Warn
    /\ result = DbException(1900)
    /\ conn # None

\* ------------------------------------------------------ C12
\* A step that is a whole call of disconnect().
DisconnectCall == pc = "idle" /\ pc' = "idle" /\ call'.op = "disconnect"

DisconnectEffect ==
    DisconnectCall =>
        /\ conn' = None
        /\ result' = Return("None")
        /\ UNCHANGED <<lastHandle, sleepLen, attemptMaxNo, n, cursors, kwargs>>
        /\ conn = None => trace' = <<>> /\ UNCHANGED server
        /\ conn # None => Len(trace') = 1 /\ trace'[1].ev = "close"

\* A disconnect() that follows a disconnect() changes nothing.
DisconnectTwice ==
    (DisconnectCall /\ call.op = "disconnect") =>
        /\ trace' = <<>>
        /\ UNCHANGED <<conn, lastHandle, sleepLen, attemptMaxNo, pc, call, n, cursors,
                       result, server, kwargs>>

\* An isConnected() that follows a disconnect() returns False at once.
IsConnectedAfterDisconnect ==
    (pc = "idle" /\ call.op = "disconnect" /\ call'.op = "isConnected") =>
        /\ pc' = "idle"
        /\ trace' = <<>>
        /\ result' = Return("False")
        /\ conn' = None

\* C12: disconnect() never raises and always leaves the handle absent: with
\* no handle it makes no driver call, with a handle it closes it and returns
\* whatever the close did; a second disconnect() in a row changes nothing,
\* and isConnected() right after it returns False without a ping.
C12_DisconnectContract ==
    [][DisconnectEffect /\ DisconnectTwice /\ IsConnectedAfterDisconnect]_vars

C12_Witness ==
    /\ pc = "idle"
    /\ call.op = "disconnect"
    /\ trace = <<Ev("close", Err("OperationalError", 2006))>>
    /\ result = Return("None")
    /\ conn = None
    /\ lastHandle # 0

\* ------------------------------------------------------ C13
\* The call that ended was a connect(dbName) / useDb(dbName) for a database
\* the server does not hold.
SelectedMissingDb ==
    /\ pc = "idle"
    /\ call.op \in ConnOps
    /\ call.dbName # NoName
    /\ call.dbName \notin pre.server.dbs

\* C13: connect(dbName) / useDb(dbName) for a database that does not exist
\* raises a DbException and leaves the connection up: a handle is held, and
\* when one was held before it is the same handle, with the database that
\* was selected still selected; a call that starts with a handle held makes
\* no open attempt and keeps that handle, and the queries among them return.
C13_FailedSelectKeepsConnection ==
    /\ SelectedMissingDb =>
         /\ result.kind = "DbException"
         /\ conn # None
         /\ server.dbs = pre.server.dbs /\ server.tables = pre.server.tables
         /\ pre.conn # None => conn = pre.conn /\ server.sel = pre.server.sel
    /\ (pre.conn # None /\ call.op \notin {"disconnect", "__init__"}) =>
         /\ Opens = {}
         /\ conn = pre.conn
         /\ (pc = "idle" /\ call.op \in {"dbExists", "tableExists", "isView"}) =>
                result.kind = "return"

C13_Witness ==
    /\ SelectedMissingDb
    /\ call = Call("useDb", "B", FALSE, TRUE)
    /\ pre.conn # None
    /\ conn = pre.conn
    /\ pre.server.sel = "A"
    /\ server.sel = "A"
    /\ Opens = {}
    /\ result = DbException(1540)

\* ------------------------------------------------------ reading the server
HasTable(s, dbName, tableName) == \E x \in s.tables : x.db = dbName /\ x.name = tableName
HasBaseTable(s, dbName, tableName) ==
    \E x \in s.tables : x.db = dbName /\ x.name = tableName /\ x.type = "BASE TABLE"
Bool(b) == IF b THEN "True" ELSE "False"
\* The call changed no database and no table.
SameSchema == server.dbs = pre.server.dbs /\ server.tables = pre.server.tables
\* The public call op has ended.
Ended(op) == pc = "idle" /\ call.op = op
\* The database an ended table operation addressed: the one it named, else
\* the one selected on the connection (table operations select nothing).
TargetDb == IF call.dbName # NoName THEN call.dbName ELSE server.sel

\* ------------------------------------------------------ C14
\* C14: createDb(name, mayExist=True) returns whether or not the database
\* exists, so it succeeds twice in a row, and it leaves the set of databases
\* as it was plus that name, with the tables of an existing database kept;
\* createDb(name, mayExist=False) on an existing database raises
\* DbException(DB_EXISTS) and changes nothing.
C14_CreateDbMayExist ==
    (Ended("createDb") /\ call.dbName # NoName) =>
        /\ call.mayExist =>
             /\ result.kind = "return"
             /\ result.absorbed = (IF call.dbName \in pre.server.dbs THEN 1510 ELSE 0)
             /\ server.dbs = pre.server.dbs \cup {call.dbName}
             /\ server.tables = pre.server.tables
        /\ ~call.mayExist =>
             IF call.dbName \in pre.server.dbs
             THEN result = DbException(1510) /\ SameSchema
             ELSE /\ result = Return("None")
                  /\ server.dbs = pre.server.dbs \cup {call.dbName}

C14_Witness ==
    /\ Ended("createDb")
    /\ call = Call("createDb", "A", TRUE, TRUE)
    /\ "A" \in pre.server.dbs
    /\ HasTable(pre.server, "A", "t1")
    /\ result.kind = "return"
    /\ result.absorbed = 1510
    /\ HasTable(server, "A", "t1")

\* ------------------------------------------------------ C15
\* dropDb on a database that does not exist.
DropMissingDb ==
    (Ended("dropDb") /\ call.dbName \notin pre.server.dbs) =>
        IF call.mustExist
        THEN result = DbException(1515) /\ SameSchema
        ELSE result.kind = "return" /\ SameSchema

\* dropTable on a table that does not exist, given what it has to do then.
DropMissingTable ==
    IF call.mustExist
    THEN result = DbException(1555) /\ SameSchema
    ELSE result.kind = "return" /\ SameSchema

\* C15 as stated: dropDb(name, mustExist=False) on a database that does not
\* exist returns and changes nothing, with mustExist=True it raises
\* DbException(DB_DOES_NOT_EXIST); the same holds for dropTable on a table
\* that does not exist, with TB_DOES_NOT_EXIST.
C15_Original ==
    /\ DropMissingDb
    /\ (Ended("dropTable") /\ ~HasBaseTable(pre.server, TargetDb, call.tableName)) =>
           DropMissingTable

\* C15 (amended): as stated for dropDb, and for dropTable when a database is
\* named in the call or selected on the connection; an unqualified
\* dropTable while no database is selected raises
\* DbException(SERVER_ERROR) whatever mustExist is, and changes nothing.
C15_DropMissing ==
    /\ DropMissingDb
    /\ (Ended("dropTable") /\ ~HasBaseTable(pre.server, TargetDb, call.tableName)) =>
           IF TargetDb # NoName
           THEN DropMissingTable
           ELSE result = DbException(1540) /\ SameSchema

C15_Witness ==
    /\ Ended("dropTable")
    /\ call = CallT("dropTable", "t1", NoName, FALSE, FALSE)
    /\ server.sel = "A"
    /\ ~HasTable(pre.server, "A", "t1")
    /\ HasTable(pre.server, "B", "t1")
    /\ result.kind = "return"
    /\ result.absorbed = 1555
    /\ SameSchema

\* ------------------------------------------------------ C16
\* C16: tableExists(t, db) answers from the tables the server holds, which
\* only the schema operations change: no table exists at the start, t is in
\* db once createTable(t, ..., db) has returned, it is gone once
\* dropTable(t, db) has dropped it or dropDb(db) has returned, and a
\* createTable or dropTable in one database changes no other database.
C16_TableExistsTracksSchema ==
    /\ (Ended("tableExists") /\ call.dbName # NoName) =>
           /\ result = Return(Bool(HasTable(server, call.dbName, call.tableName)))
           /\ SameSchema
    /\ (Ended("createTable") /\ call.dbName # NoName /\ result.kind = "return") =>
           HasTable(server, call.dbName, call.tableName)
    /\ (Ended("dropTable") /\ call.dbName # NoName /\ result = Return("None")) =>
           ~HasTable(server, call.dbName, call.tableName)
    /\ (Ended("dropDb") /\ result.kind = "return") =>
           \A t \in TableNames : ~HasTable(server, call.dbName, t)
    /\ \A d \in DbNames, t \in TableNames :
           HasTable(server, d, t) # HasTable(pre.server, d, t) =>
               \/ call.op \in {"createTable", "dropTable", "execCommand0"} /\ TargetDb = d
               \/ call.op = "dropDb" /\ call.dbName = d

C16_Witness ==
    /\ Ended("tableExists")
    /\ call = CallT("tableExists", "t1", "A", FALSE, TRUE)
    /\ "A" \in server.dbs
    /\ server.sel = "B"
    /\ HasTable(server, "B", "t1")
    /\ result = Return("False")

\* ------------------------------------------------------ C17
\* The ended call is one that must not select: createDb, or a table
\* operation with an explicit database argument.
NonSelectingCall ==
    /\ pc = "idle"
    /\ \/ call.op = "createDb"
       \/ call.op \in {"createTable", "dropTable", "tableExists", "isView"}
              /\ call.dbName # NoName

\* C17: createDb, and createTable, dropTable, tableExists and isView called
\* with an explicit database argument, leave the selected database as it
\* was (on a connection they had to open first none is selected), and the
\* unqualified operations act on the selected database.
C17_SelectionUnchanged ==
    /\ NonSelectingCall =>
           server.sel = (IF pre.conn # None THEN pre.server.sel ELSE NoName)
    /\ (Ended("tableExists") /\ call.dbName = NoName) =>
           result = Return(Bool(HasTable(server, server.sel, call.tableName)))
    /\ (Ended("createTable") /\ call.dbName = NoName /\ result = Return("None")) =>
           /\ HasTable(server, server.sel, call.tableName)
           /\ \A d \in DbNames \ {server.sel} :
                  HasTable(server, d, call.tableName) = HasTable(pre.server, d, call.tableName)

C17_Witness ==
    /\ Ended("createTable")
    /\ call.dbName = "B"
    /\ result = Return("None")
    /\ pre.conn # None
    /\ pre.server.sel = "A"
    /\ server.sel = "A"
    /\ HasTable(server, "B", "t1")
    /\ ~HasTable(pre.server, "B", "t1")
    /\ ~HasTable(server, "A", "t1")

\* ------------------------------------------------------ C18
\* C18: tableExists(t) and isView(t) without a database argument, while no
\* database is selected on the connection, return False and do not raise,
\* whatever tables and views the server holds.
C18_UnselectedLookupIsFalse ==
    ( /\ pc = "idle"
      /\ call.op \in {"tableExists", "isView"}
      /\ call.dbName = NoName
      /\ server.sel = NoName )
    => result = Return("False") /\ SameSchema

C18_Witness ==
    /\ Ended("tableExists")
    /\ call.dbName = NoName
    /\ server.sel = NoName
    /\ HasTable(server, "A", "t1")
    /\ HasTable(server, "B", "t1")
    /\ conn # None
    /\ result = Return("False")

\* ------------------------------------------------------ C19
\* C19: dropDb(D) of the selected database keeps the handle and leaves no
\* database selected; while none is selected an unqualified createTable
\* raises a DbException and creates nothing; a useDb that returned has
\* selected its database, and with a database selected an unqualified
\* createTable of a table that is not there creates it in that database.
C19_DropSelectedDb ==
    /\ ( /\ Ended("dropDb")
         /\ result = Return("None")
         /\ pre.conn # None
         /\ pre.server.sel = call.dbName )
       => conn = pre.conn /\ server.sel = NoName
    /\ (Ended("createTable") /\ call.dbName = NoName /\ server.sel = NoName) =>
           /\ result = DbException(1540)
           /\ SameSchema
           /\ conn # None
    /\ (Ended("useDb") /\ call.dbName # NoName /\ result.kind = "return") =>
           server.sel = call.dbName
    /\ ( /\ Ended("createTable")
         /\ call.dbName = NoName
         /\ server.sel # NoName
         /\ ~HasTable(pre.server, server.sel, call.tableName) )
       => /\ result = Return("None")
          /\ HasTable(server, server.sel, call.tableName)

C19_Witness ==
    /\ Ended("dropDb")
    /\ call.dbName = "A"
    /\ pre.server.sel = "A"
    /\ HasTable(pre.server, "A", "t1")
    /\ pre.conn # None
    /\ conn = pre.conn
    /\ result = Return("None")
    /\ server.sel = NoName
    /\ server.dbs = {"B"}

\* ------------------------------------------------------ C20
\* The host the claim expects to be used for the host that was given.
EffectiveHost == IF given.host = "localhost" THEN "127.0.0.1" ELSE given.host

\* C20: when the host given is the literal "localhost", the host stored in
\* the connection parameters of the instance, handed to MySQLdb.connect on
\* every open attempt and to the mysql executable is 127.0.0.1 and never
\* "localhost"; every other host is stored and handed over as given (none
\* when none was given).
C20_LocalhostIsLoopback ==
    /\ pc # "unconstructed" => kwargs.host = EffectiveHost /\ kwargs.host # "localhost"
    /\ Opens # {} => passed.connect # {}
    /\ \A k \in passed.connect : k.host = EffectiveHost /\ k.host # "localhost"
    /\ (Ended("loadSqlScript") /\ result.kind \in {"return", "DbException"}) =>
           passed.mysql # {}
    /\ \A a \in passed.mysql :
           {o \in a : o[1] = "host"} =
               (IF given.host = Absent THEN {} ELSE {<<"host", EffectiveHost>>})

C20_Witness ==
    /\ pc = "idle"
    /\ given.host = "localhost"
    /\ call.op = "connect"
    /\ Cardinality(Opens) = 2
    /\ \A k \in passed.connect : k.host = "127.0.0.1"
    /\ passed.connect # {}
    /\ \E a \in passed.mysql : <<"host", "127.0.0.1">> \in a

C22_ServerReachable ==
    pc # "unconstructed" =>
        \/ kwargs.host # Absent /\ kwargs.port # Absent
        \/ kwargs.unix_socket # Absent
        \/ kwargs.read_default_file # Absent

\* ------------------------------------------------------ C23
\* Driver codes to classify: the eight of the map, and codes absent from
\* it (0, access denied, no database selected, unknown database, 9999).
SampleCodes == {0, 1007, 1008, 1045, 1046, 1049, 1050, 1051, 2002, 2003, 2006, 2013, 9999}

\* The last driver call of the call that ended, when it failed with a
\* driver error under a bare except (open, select_db, execute).
LastFailure ==
    {i \in DOMAIN trace :
        /\ trace[i].ev \in {"open", "select_db", "execute"}
        /\ IsError(trace[i].out)
        /\ \A j \in DOMAIN trace : j > i => trace[j].ev = "cursor_close"}

\* C23: the classifier gives a kind to every driver code: 1007 is
\* DB_EXISTS, 1008 DB_DOES_NOT_EXIST, 1050 TB_EXISTS, 1051
\* TB_DOES_NOT_EXIST, 2002 / 2003 / 2006 / 2013 SERVER_CONNECT and every
\* other code SERVER_ERROR; the connectivity test is true exactly for the
\* codes of kind SERVER_CONNECT.  A call that ends on a failed open,
\* select_db or execute raises the kind of that code, and an open attempt
\* is followed by another one only after a code of kind SERVER_CONNECT.
C23_ClassifierIsTotal ==
    /\ \A c \in SampleCodes :
         /\ getErrCode(c) = ClaimedKind(c)
         /\ isConnectionError(c) <=> (ClaimedKind(c) = 1530)
         /\ isConnectionError(c) <=> (c \in ConnectivityCodes)
    /\ pc = "idle" =>
         \A i \in LastFailure : RaisedDbException(ClaimedKind(trace[i].out.code))
    /\ \A i \in Opens :
         (\E j \in Opens : j > i) => IsConnFail(trace[i].out)

C23_Witness ==
    /\ pc = "idle"
    /\ call.op = "execCommand0"
    /\ Len(trace) = 5
    /\ trace[1] = Ev("open", Err("OperationalError", 2013))
    /\ trace[4].ev = "execute"
    /\ trace[4].out = Err("OperationalError", 1045)
    /\ result = DbException(1540)

\* ------------------------------------------------------ C24
ToggleOps == {"createDb", "dropDb", "createTable", "dropTable"}

\* The kind the toggle of each operation is about.
OwnKind(op) ==
    CASE op = "createDb" -> 1510
      [] op = "dropDb" -> 1515
      [] op = "createTable" -> 1560
      [] op = "dropTable" -> 1555

Permissive(c) == IF c.op \in {"createDb", "createTable"} THEN c.mayExist ELSE ~c.mustExist

\* The DbException kinds of the failures the call ended on: the kind of
\* the code for a driver error, SERVER_WARNING for a warning.
FailureKinds ==
    {ClaimedKind(trace[i].out.code) : i \in LastFailure} \cup
    {1900 : i \in {j \in DOMAIN trace :
                      /\ trace[j].ev \in {"open", "select_db", "execute"}
                      /\ trace[j].out = Warn}}

\* C24: createDb / createTable (mayExist) and dropDb / dropTable
\* (mustExist) swallow a failure only when the toggle is permissive and the
\* kind is the operation's own (DB_EXISTS, TB_EXISTS, DB_DOES_NOT_EXIST,
\* TB_DOES_NOT_EXIST); a failure of any other kind reaches the caller as a
\* DbException of that kind whatever the toggle is, and before a call
\* returns normally either nothing failed or its own kind was swallowed.
C24_ToggleAbsorbsOwnKindOnly ==
    (pc = "idle" /\ call.op \in ToggleOps) =>
        /\ result.absorbed # 0 =>
               /\ result.absorbed = OwnKind(call.op)
               /\ Permissive(call)
               /\ FailureKinds = {OwnKind(call.op)}
        /\ \A k \in FailureKinds :
               IF k = OwnKind(call.op) /\ Permissive(call)
               THEN result.kind = "return" /\ result.absorbed = k
               ELSE result = DbException(k)
        /\ (result.kind = "return" /\ result.absorbed = 0) => FailureKinds = {}

C24_Witness ==
    /\ pc = "idle"
    /\ call.op = "createDb"
    /\ call.mayExist
    /\ conn # None
    /\ trace = <<Ev("cursor", Ok), Ev("execute", Err("OperationalError", 1050)),
                 Ev("cursor_close", Ok)>>
    /\ result = DbException(1560)

\* ------------------------------------------------------ C25
\* C25: the connect that a statement-executing call makes on its own
\* selects no database.  While no handle is held no database is selected;
\* a call that started without a handle runs its statement on the handle
\* just opened with no database selected, so an unqualified
\* tableExists(t) returns False then, also for a table of the database
\* that was selected on the connection closed before; the selection is
\* back once useDb(dbName) succeeded.
C25_ImplicitConnectSelectsNothing ==
    /\ conn = None => server.sel = NoName
    /\ (pc = "idle" /\ call.op \in ExecOps /\ pre.conn = None /\ trace # <<>>) =>
           /\ trace[1] = Ev("open", Ok)
           /\ conn = lastHandle /\ conn # None
           /\ server.sel = NoName
           /\ server.lost = pre.server.lost
    /\ (Ended("tableExists") /\ call.dbName = NoName /\ pre.conn = None) =>
           result = Return("False")
    /\ (Ended("useDb") /\ call.dbName # NoName /\ result = Return("None")) =>
           server.sel = call.dbName /\ server.lost = NoName

C25_Witness ==
    /\ Ended("tableExists")
    /\ call.dbName = NoName
    /\ pre.conn = None
    /\ server.lost = "A"
    /\ HasTable(server, "A", "t1")
    /\ Len(trace) = 5
    /\ result = Return("False")

\* ------------------------------------------------------ C26
\* The driver calls made under a bare except that answered with an
\* exception that is neither MySQLdb.Error nor MySQLdb.Warning.
Unexpected ==
    {i \in DOMAIN trace :
        trace[i].ev \in {"open", "select_db", "execute"} /\ trace[i].out = Other}

\* C26: an exception that is neither a driver error nor a warning, raised
\* by an open attempt, by select_db or by the execution of a statement,
\* reaches the caller as it is: the call ends there with that exception,
\* no driver call follows but the close of the cursor, and in the connect
\* loop no further attempt and no sleep follow whatever attempts are left.
C26_UnexpectedExceptionReraised ==
    \A i \in Unexpected :
        /\ pc = "idle"
        /\ result = Raw(Other)
        /\ result.kind # "DbException"
        /\ n = 0
        /\ \A j \in DOMAIN trace : j > i => trace[j].ev = "cursor_close"
        /\ trace[i].ev = "open" => conn = None

C26_Witness ==
    /\ pc = "idle"
    /\ call.op = "connect"
    /\ attemptMaxNo = 3
    /\ trace = <<Ev("open", Err("OperationalError", 2003)), Ev("open", Other)>>
    /\ result = Raw(Other)
    /\ conn = None

\* ------------------------------------------------------ C27
\* C27: the configuration does not change after construction: no step of
\* connect, disconnect, isConnected, an execCommand operation or
\* loadSqlScript (with or without a database name) changes self._kwargs,
\* sleepLen or the attempt limit, and every open attempt is made with
\* the parameters the constructor stored.
C27_Step ==
    /\ UNCHANGED <<kwargs, sleepLen, attemptMaxNo>>
    /\ passed'.connect \subseteq {kwargs}
    /\ pc # "unconstructed" => kwargs = initKwargs(given)

C27_ConfigurationImmutable == [][C27_Step]_vars

C27_Witness ==
    /\ Ended("loadSqlScript")
    /\ call.dbName = "A"
    /\ result = Return("None")
    /\ kwargs.db = Absent
    /\ kwargs = initKwargs(given)
    /\ passed.connect = {kwargs}
    /\ \E a \in passed.mysql : <<"database", "A">> \in a
    /\ conn # None

\* ------------------------------------------------------ C28
\* What one step may do to the handle.
C28_Step ==
    /\ (conn = None /\ conn' # None) =>
           /\ pc = "open"
           /\ Len(trace') > Len(trace)
           /\ trace'[Len(trace) + 1] = Ev("open", Ok)
           /\ conn' = lastHandle'
    /\ (conn # None /\ conn' # conn) =>
           /\ conn' = None
           /\ call'.op = "disconnect"
           /\ Len(trace') = 1 /\ trace'[1].ev = "close"
    /\ \A i \in DOMAIN trace' :
           (trace'[i].ev = "open" /\ (i > Len(trace) \/ pc = "idle")) => conn = None
    /\ (pc = "ping" /\ call.op = "connect" /\ trace' = <<Ev("ping", Ok)>>) =>
           /\ conn' = conn
           /\ pc' \in {"idle", "select_db"}

\* C28: an instance owns at most one connection.  The handle is absent at
\* construction; it becomes present only by a successful open attempt; an
\* open attempt is made only while no handle is held, so connect() on an
\* instance whose handle answers the ping goes on without an open attempt
\* and with the same handle; a handle that is held is given up only by
\* disconnect(), after close() was called on it, and never replaced by
\* another.
C28_AtMostOneConnection ==
    /\ conn = None
    /\ [](pc \in {"open", "sleep"} => conn = None)
    /\ []((Ended("connect") /\ trace # <<>> /\ trace[1] = Ev("ping", Ok)) =>
              Opens = {} /\ conn = lastHandle /\ conn # None)
    /\ [][C28_Step]_vars

C28_Witness ==
    /\ Ended("connect")
    /\ trace = <<Ev("ping", Ok)>>
    /\ result = Return("None")
    /\ lastHandle = 2
    /\ conn = lastHandle

\* ------------------------------------------------------ C29
\* The current call is an execCommand operation that found a handle: its
\* first driver call is the cursor of that handle.
OnHeldHandle == call.op \in ExecOps /\ trace # <<>> /\ trace[1].ev = "cursor"

NoNameGiven(op) == Ended(op) /\ call.dbName = NoName

\* C30: createDb(None) raises DbException(INVALID_DB_NAME), dbExists(None)
\* returns False and useDb(None) returns None; none of the three makes a
\* driver call (no ping, no open attempt, no statement), and the handle,
\* the open cursors, the selected database and the databases and tables
\* of the server are what they were before the call.
C30_AbsentDbName ==
    /\ NoNameGiven("createDb") => result = DbException(1525)
    /\ NoNameGiven("dbExists") => result = Return("False")
    /\ NoNameGiven("useDb") => result = Return("None")
    /\ \A op \in {"createDb", "dbExists", "useDb"} :
           NoNameGiven(op) =>
               /\ trace = <<>>
               /\ conn = pre.conn
               /\ server = pre.server
               /\ cursors = 0
               /\ n = 0

C30_Witness ==
    /\ NoNameGiven("createDb")
    /\ call.mayExist
    /\ result = DbException(1525)
    /\ trace = <<>>
    /\ conn # None
    /\ conn = pre.conn
    /\ server.sel = "A"
    /\ server = pre.server
====
